---- MODULE Spec2Model ----
(***************************************************************************)
(* TaskAgent._execute_plan (aios_agent/agents/task.py): the dependency-    *)
(* ordered, wave-by-wave plan runner.  The coroutine is cut at its await   *)
(* points and at its loop heads; the step executor and the event sink are  *)
(* the environment.                                                        *)
(***************************************************************************)
EXTENDS Integers, Sequences, FiniteSets, TLC

\* ------------------------------------------------------------------ bounds
MaxSteps == 3          \* longest plan explored
MaxDeps  == 2          \* most depends_on entries in one plan, all steps together

\* ------------------------------------------------------- executor outcomes
\* What the awaited _execute_single_step can do inside asyncio.wait_for.
Outcomes == {"ok", "fail", "timeout", "raise"}

VARIABLES
    plan_steps,       \* the argument: sequence of [id, depends_on, can_fail]
    steps_by_id,      \* id -> [depends_on, can_fail, status, result]
    remaining,        \* set of ids
    completed,        \* dict id -> result
    failed,           \* list of [id, error, skipped]
    execution_order,  \* list of ids
    ready,            \* list of ids of the current wave
    started,          \* how many _run_step tasks of the wave have begun
    running,          \* ids whose _execute_single_step call is in progress
    task_result,      \* id -> result, for the tasks of the wave that are done
    calls,            \* id -> number of _execute_single_step calls so far
    waves,            \* per wave, the set of ids whose task has been started
    pc,               \* "loop" | "gather" | "emit" | "returned" | "raised"
    exception,        \* what propagated to the caller when pc = "raised"
    report,           \* <<>> until return, then <<the returned dict>>
    \* _create_plan and _plan_and_execute
    plan_text,        \* what think() returned, <<>> before
    validated_steps,  \* the list _create_plan built
    plan_result,      \* <<>> until _create_plan returns, then <<its dict>>
    build_pc,         \* "idle" | "search" | "think" | "parse" | "store" |
                      \* "built" | "executing" | "no_steps" | "raised"
    build_exception,  \* what _create_plan raised when build_pc = "raised"
    \* BaseAgent.execute_task and TaskAgent.handle_task
    description,      \* the keywords task["description"].lower() contains
    input_json,       \* what task["input_json"] holds
    handler,          \* the coroutine handle_task awaited, "None" before
    handler_result,   \* <<>>, then <<what the handler returned or raised>>
    decisions,        \* number of store_decision calls
    exec_pc,          \* "idle" | "deserialise" | "handling" | "handled" |
                      \* "except" | "cancelled"
    current_task_id,  \* self._current_task_id
    tasks_completed,  \* self._tasks_completed
    tasks_failed,     \* self._tasks_failed
    exec_report,      \* the dicts execute_task returned, oldest first
    \* the other objects, each with its fields
    client,           \* one OrchestratorClient._call activation
    monitor,          \* MonitoringAgent: _active_alerts and one _check_alerts
    lifecycle         \* BaseAgent.run with its two background tasks

builder_vars == <<plan_text, validated_steps, plan_result, build_pc, build_exception>>

task_vars == <<description, input_json, handler, handler_result, decisions, exec_pc,
               current_task_id, tasks_completed, tasks_failed, exec_report>>

vars == <<plan_steps, steps_by_id, remaining, completed, failed,
          execution_order, ready, started, running, task_result, calls, waves,
          pc, exception, report, builder_vars, task_vars, client, monitor,
          lifecycle>>

\* ----------------------------------------------------------------- helpers
Range(s) == {s[i] : i \in 1..Len(s)}

\* All iteration orders of a set (a Python set iterates in no defined order).
RECURSIVE Orders(_)
Orders(S) ==
    IF S = {} THEN {<<>>}
    ELSE UNION {{<<x>> \o o : o \in Orders(S \ {x})} : x \in S}

RECURSIVE SubsetsUpTo(_, _)
SubsetsUpTo(S, k) ==
    IF k = 0 THEN {{}}
    ELSE LET P == SubsetsUpTo(S, k - 1) IN P \cup {p \cup {e} : p \in P, e \in S}

NoResult == [success |-> FALSE, error |-> "None"]

\* steps_by_id[step["id"]] = step, later entries overwriting earlier ones
StepsById(plan) ==
    [k \in {plan[i].id : i \in 1..Len(plan)} |->
        LET last == CHOOSE i \in 1..Len(plan) :
                        /\ plan[i].id = k
                        /\ \A j \in 1..Len(plan) : plan[j].id = k => j <= i
        IN [depends_on |-> plan[last].depends_on,
            can_fail   |-> plan[last].can_fail,
            status     |-> "pending",
            result     |-> NoResult]]

FailedIds(f) == {f[i].id : i \in 1..Len(f)}

\* any() written for all(): one satisfied dependency is enough
DepsSatisfiedAny(deps, done, rem) ==
    \E d \in deps : d \in done \/ d \notin rem

\* the "or d not in remaining" half left out
DepsSatisfiedCompletedOnly(deps, done, rem) ==
    \A d \in deps : d \in done

\* all(d in completed or d not in remaining for d in deps)
DepsSatisfied(deps, done, rem) ==
    \A d \in deps : d \in done \/ d \notin rem

\* a dependency counts as failed unless it is completed
DepFailedNotCompleted(deps, f) == \E d \in deps : d \notin DOMAIN completed

\* any(d in [f["id"] for f in failed] for d in deps)
DepFailed(deps, f) == \E d \in deps : d \in FailedIds(f)

\* the flag read under a key no step has: always the default
CanFailIgnored(step) == FALSE

\* step.get("can_fail", False)
CanFail(step) == step.can_fail

\* ---------------------------------------------------------------- the scan
\* for step_id in remaining: ... ; `order` is the order the set iterator
\* yields.  The iterator was created over Len(order) elements and raises
\* RuntimeError("Set changed size during iteration") on the next() that
\* follows a discard.
\* a break after ready.append: the scan stops at the first ready step
RECURSIVE ScanFromFirstReady(_, _, _)
ScanFromFirstReady(order, i, acc) ==
    IF Cardinality(acc.remaining) # Len(order) THEN [acc EXCEPT !.raised = TRUE]
    ELSE IF i > Len(order) THEN acc
    ELSE LET step_id == order[i]
             step    == steps_by_id[step_id]
         IN IF DepsSatisfied(step.depends_on, DOMAIN completed, acc.remaining)
            THEN IF DepFailed(step.depends_on, acc.failed) /\ ~CanFail(step)
                 THEN ScanFromFirstReady(order, i + 1,
                        [acc EXCEPT
                           !.failed = Append(@, [id |-> step_id,
                                                 error |-> "Dependency failed",
                                                 skipped |-> TRUE]),
                           !.remaining = @ \ {step_id}])
                 ELSE [acc EXCEPT !.ready = Append(@, step_id)]
            ELSE ScanFromFirstReady(order, i + 1, acc)

RECURSIVE ScanFrom(_, _, _)
ScanFrom(order, i, acc) ==
    IF Cardinality(acc.remaining) # Len(order) THEN [acc EXCEPT !.raised = TRUE]
    ELSE IF i > Len(order) THEN acc
    ELSE LET step_id == order[i]
             step    == steps_by_id[step_id]
         IN IF DepsSatisfied(step.depends_on, DOMAIN completed, acc.remaining)
            THEN IF DepFailed(step.depends_on, acc.failed) /\ ~CanFail(step)
                 THEN ScanFrom(order, i + 1,
                        [acc EXCEPT
                           !.failed = Append(@, [id |-> step_id,
                                                 error |-> "Dependency failed",
                                                 skipped |-> TRUE]),
                           !.remaining = @ \ {step_id}])
                 ELSE ScanFrom(order, i + 1, [acc EXCEPT !.ready = Append(@, step_id)])
            ELSE ScanFrom(order, i + 1, acc)

Scan(order) ==
    ScanFrom(order, 1, [ready |-> <<>>, failed |-> failed,
                        remaining |-> remaining, raised |-> FALSE])

\* a break inside the for: only the first remaining step is recorded
DeadlockedFirstOnly(order, i, f) ==
    IF i > Len(order) THEN f
    ELSE Append(f, [id |-> order[i], error |-> "Deadlocked dependency",
                    skipped |-> TRUE])

\* for step_id in remaining: failed.append({... "Deadlocked dependency" ...})
RECURSIVE Deadlocked(_, _, _)
Deadlocked(order, i, f) ==
    IF i > Len(order) THEN f
    ELSE Deadlocked(order, i + 1,
            Append(f, [id |-> order[i], error |-> "Deadlocked dependency",
                       skipped |-> TRUE]))

\* ------------------------------------------------------------ one step run
\* _run_step: the try/except around asyncio.wait_for.  The executor's error
\* text and the text of an exception it raises are free strings; both are
\* taken to be "broken" here, the timeout text is the runner's own.
\* the timeout handler builds its dict with success True
RunStepResultTimeoutPasses(outcome) ==
    CASE outcome = "ok"      -> [success |-> TRUE,  error |-> ""]
      [] outcome = "fail"    -> [success |-> FALSE, error |-> "broken"]
      [] outcome = "timeout" -> [success |-> TRUE,  error |-> "Step timed out"]
      [] outcome = "raise"   -> [success |-> FALSE, error |-> "broken"]

RunStepResult(outcome) ==
    CASE outcome = "ok"      -> [success |-> TRUE,  error |-> ""]
      [] outcome = "fail"    -> [success |-> FALSE, error |-> "broken"]
      [] outcome = "timeout" -> [success |-> FALSE, error |-> "Step timed out"]
      [] outcome = "raise"   -> [success |-> FALSE, error |-> "broken"]

\* ------------------------------------------------------- the results loop
\* completed[step_id] = result
Put(d, k, v) == [x \in DOMAIN d \cup {k} |-> IF x = k THEN v ELSE d[x]]

\* for step_id, result in results: ...   (res is the list gather returned)
\* the results loop without remaining.discard(step_id)
RECURSIVE CollectNoDiscard(_, _, _)
CollectNoDiscard(res, i, acc) ==
    IF i > Len(res) THEN acc
    ELSE LET step_id == res[i][1]
             result  == res[i][2]
             a1 == [acc EXCEPT
                      !.execution_order = Append(@, step_id),
                      !.steps_by_id[step_id].result = result]
         IN IF result.success
            THEN CollectNoDiscard(res, i + 1,
                   [a1 EXCEPT
                      !.completed = Put(@, step_id, result),
                      !.steps_by_id[step_id].status = "completed"])
            ELSE LET a2 == [a1 EXCEPT !.steps_by_id[step_id].status = "failed"]
                 IN IF ~CanFail(steps_by_id[step_id])
                    THEN CollectNoDiscard(res, i + 1,
                           [a2 EXCEPT !.failed =
                              Append(@, [id |-> step_id, error |-> result.error,
                                         skipped |-> FALSE])])
                    ELSE CollectNoDiscard(res, i + 1,
                           [a2 EXCEPT !.completed = Put(@, step_id, result)])

\* the results loop marking a tolerated failure "completed", as the dict it
\* is stored in suggests
RECURSIVE CollectToleratedCompleted(_, _, _)
CollectToleratedCompleted(res, i, acc) ==
    IF i > Len(res) THEN acc
    ELSE LET step_id == res[i][1]
             result  == res[i][2]
             a1 == [acc EXCEPT
                      !.remaining = @ \ {step_id},
                      !.execution_order = Append(@, step_id),
                      !.steps_by_id[step_id].result = result]
         IN IF result.success
            THEN CollectToleratedCompleted(res, i + 1,
                   [a1 EXCEPT
                      !.completed = Put(@, step_id, result),
                      !.steps_by_id[step_id].status = "completed"])
            ELSE IF ~CanFail(steps_by_id[step_id])
                 THEN CollectToleratedCompleted(res, i + 1,
                        [a1 EXCEPT
                           !.steps_by_id[step_id].status = "failed",
                           !.failed =
                              Append(@, [id |-> step_id, error |-> result.error,
                                         skipped |-> FALSE])])
                 ELSE CollectToleratedCompleted(res, i + 1,
                        [a1 EXCEPT
                           !.steps_by_id[step_id].status = "completed",
                           !.completed = Put(@, step_id, result)])

RECURSIVE Collect(_, _, _)
Collect(res, i, acc) ==
    IF i > Len(res) THEN acc
    ELSE LET step_id == res[i][1]
             result  == res[i][2]
             a1 == [acc EXCEPT
                      !.remaining = @ \ {step_id},
                      !.execution_order = Append(@, step_id),
                      !.steps_by_id[step_id].result = result]
         IN IF result.success
            THEN Collect(res, i + 1,
                   [a1 EXCEPT
                      !.completed = Put(@, step_id, result),
                      !.steps_by_id[step_id].status = "completed"])
            ELSE LET a2 == [a1 EXCEPT !.steps_by_id[step_id].status = "failed"]
                 IN IF ~CanFail(steps_by_id[step_id])
                    THEN Collect(res, i + 1,
                           [a2 EXCEPT !.failed =
                              Append(@, [id |-> step_id, error |-> result.error,
                                         skipped |-> FALSE])])
                    ELSE Collect(res, i + 1,
                           [a2 EXCEPT !.completed = Put(@, step_id, result)])

\* resumes as soon as one task is done (asyncio.wait, FIRST_COMPLETED)
GatherDoneAny == DOMAIN task_result # {}

\* results = await asyncio.gather(...): resumes when every task is done
GatherDone == started = Len(ready) /\ DOMAIN task_result = Range(ready)

\* the list gather returns: the (sid, result) pairs of the finished tasks, in
\* the order of `ready`
Results ==
    LET fin == SelectSeq(ready, LAMBDA s : s \in DOMAIN task_result)
    IN [i \in 1..Len(fin) |-> <<fin[i], task_result[fin[i]]>>]

\* success also asks for a completed step
OverallSuccessNeedsCompleted(f) == Len(f) = 0 /\ DOMAIN completed # {}

\* only executed failures counted, skip records ignored
OverallSuccessExecutedOnly(f) == \A i \in 1..Len(f) : f[i].skipped

\* overall_success = len(failed) == 0
OverallSuccess(f) == Len(f) = 0

Report ==
    [success         |-> OverallSuccess(failed),
     steps_total     |-> Len(plan_steps),
     steps_completed |-> Cardinality(DOMAIN completed),
     steps_failed    |-> Len(failed),
     execution_order |-> execution_order,
     results         |-> completed,
     failures        |-> failed]

\* ------------------------------------------------------------------- plans
\* Step ids are opaque and the scan takes `remaining` in every order, so
\* the runs of a plan are the runs of each of its renamings, renamed.  Every
\* plan is a renaming of one whose can_fail steps carry the smallest ids.
CanFailFlags(n) ==
    {c \in [1..n -> BOOLEAN] : \A i, j \in 1..n : (i < j /\ c[j]) => c[i]}

\* A set of depends_on entries <<step, dependency>> as a number, to order
\* the plans that are renamings of one another.
RECURSIVE EdgeCode(_, _)
EdgeCode(edges, maxn) ==
    IF edges = {} THEN 0
    ELSE LET e == CHOOSE x \in edges : TRUE
         IN 2 ^ ((e[1] - 1) * maxn + e[2] - 1) + EdgeCode(edges \ {e}, maxn)

\* the entries after the steps 1..n are renamed by the permutation p
RenameEdges(edges, p, n) ==
    {<<p[e[1]], IF e[2] <= n THEN p[e[2]] ELSE e[2]>> : e \in edges}

\* Of the plans that differ by a renaming of the steps which keeps the
\* can_fail flags, the one with the least code stands for all.
LeastRenaming(edges, cf, n, maxn) ==
    \A p \in Orders(1..n) :
      (\A i \in 1..n : cf[p[i]] = cf[i])
        => EdgeCode(edges, maxn) <= EdgeCode(RenameEdges(edges, p, n), maxn)

\* The plans of at most maxn steps with at most maxd depends_on entries in
\* all, one of each class of renamings.  A plan of n steps uses the ids
\* 1..n; an entry may name any id of 1..maxn, so in a shorter plan it may
\* name an id of no step.
PlansOf(maxn, maxd) ==
    UNION {
      {[i \in 1..n |-> [id |-> i,
                        depends_on |-> {d \in 1..maxn : <<i, d>> \in ec[1]},
                        can_fail |-> ec[2][i]]] :
           ec \in {x \in SubsetsUpTo((1..n) \X (1..maxn), maxd) \X CanFailFlags(n) :
                     LeastRenaming(x[1], x[2], n, maxn)}} :
      n \in 0..maxn}

\* no task is being executed, no OrchestratorClient call, MonitoringAgent
\* check or BaseAgent.run is under way
TaskIdle ==
    /\ description = {}
    /\ input_json = "dict"
    /\ handler = "None"
    /\ handler_result = <<>>
    /\ decisions = 0
    /\ exec_pc = "idle"
    /\ current_task_id = "None"
    /\ tasks_completed = 0
    /\ tasks_failed = 0
    /\ exec_report = <<>>

NoCall == [pc |-> "idle", via |-> "None", max_retries |-> 0, attempt |-> 0,
           statuses |-> <<>>, exception |-> "None"]
NoMonitor == [pc |-> "idle", active_alerts |-> {}, rules |-> <<>>, i |-> 0,
              new_alerts |-> <<>>, resolved_alerts |-> <<>>,
              before |-> {}, seen |-> <<>>]
NoTask == [pc |-> "none", must_cancel |-> FALSE]
NoLifecycle == [running |-> FALSE, shutdown_event |-> FALSE, main |-> "not_started",
                registered |-> FALSE, heartbeat_task |-> NoTask, poll_task |-> NoTask,
                beats |-> 0, polls |-> 0, unregisters |-> 0, closed |-> FALSE]

\* the locals of _execute_plan before the while loop
Start(plans) ==
    /\ plan_steps \in plans
    /\ steps_by_id = StepsById(plan_steps)
    /\ remaining = DOMAIN StepsById(plan_steps)
    /\ completed = <<>>
    /\ failed = <<>>
    /\ execution_order = <<>>
    /\ ready = <<>>
    /\ started = 0
    /\ running = {}
    /\ task_result = <<>>
    /\ calls = [s \in DOMAIN StepsById(plan_steps) |-> 0]
    /\ waves = <<>>
    /\ pc = "loop"
    /\ exception = "None"
    /\ report = <<>>
    /\ plan_text = <<>>
    /\ validated_steps = <<>>
    /\ plan_result = <<>>
    /\ build_pc = "idle"
    /\ build_exception = "None"
    /\ TaskIdle
    /\ client = NoCall
    /\ monitor = NoMonitor
    /\ lifecycle = NoLifecycle

Init == Start(PlansOf(MaxSteps, MaxDeps))

\* one more step and one more dependency: the smallest plans in which a
\* cascade skip meets steps that do not depend on the failed one
InitWide == Start(PlansOf(MaxSteps + 1, MaxDeps + 1))

\* ----------------------------------------------------------------- actions
\* while remaining: false
LoopExit ==
    /\ pc = "loop" /\ remaining = {}
    /\ pc' = "emit"
    /\ UNCHANGED <<plan_steps, steps_by_id, remaining, completed, failed,
                   execution_order, ready, started, running, task_result, calls,
                   waves, exception, report>>
    /\ UNCHANGED <<builder_vars, task_vars, client, monitor, lifecycle>>

\* The scan discards a cascade-skipped step and the set iterator raises.
ScanRaises ==
    /\ pc = "loop" /\ remaining # {}
    /\ \E order \in Orders(remaining) :
         LET r == Scan(order) IN
           /\ r.raised
           /\ failed' = r.failed
           /\ remaining' = r.remaining
    /\ pc' = "raised"
    /\ exception' = "RuntimeError: Set changed size during iteration"
    /\ UNCHANGED <<plan_steps, steps_by_id, completed, execution_order, ready,
                   started, running, task_result, calls, waves, report>>
    /\ UNCHANGED <<builder_vars, task_vars, client, monitor, lifecycle>>

\* if not ready: every remaining step is recorded as deadlocked; break
ScanDeadlock ==
    /\ pc = "loop" /\ remaining # {}
    /\ \E order \in Orders(remaining) :
         LET r == Scan(order) IN
           /\ ~r.raised /\ r.ready = <<>>
           /\ failed' = Deadlocked(order, 1, r.failed)
    /\ pc' = "emit"
    /\ UNCHANGED <<plan_steps, steps_by_id, remaining, completed, execution_order,
                   ready, started, running, task_result, calls, waves, exception,
                   report>>
    /\ UNCHANGED <<builder_vars, task_vars, client, monitor, lifecycle>>

\* a non-empty ready list: asyncio.gather is awaited on one task per step
ScanGather ==
    /\ pc = "loop" /\ remaining # {}
    /\ \E order \in Orders(remaining) :
         LET r == Scan(order) IN
           /\ ~r.raised /\ r.ready # <<>>
           /\ ready' = r.ready
    /\ started' = 0
    /\ task_result' = <<>>
    /\ waves' = Append(waves, {})
    /\ pc' = "gather"
    /\ UNCHANGED <<plan_steps, steps_by_id, remaining, completed, failed,
                   execution_order, running, calls, exception, report>>
    /\ UNCHANGED <<builder_vars, task_vars, client, monitor, lifecycle>>

\* the event loop starts the next task of the gather: _run_step(sid) calls
\* _execute_single_step(step, completed)
StepStart ==
    /\ pc = "gather" /\ started < Len(ready)
    /\ started' = started + 1
    /\ running' = running \cup {ready[started + 1]}
    /\ calls' = [calls EXCEPT ![ready[started + 1]] = @ + 1]
    /\ waves' = [waves EXCEPT ![Len(waves)] = @ \cup {ready[started + 1]}]
    /\ UNCHANGED <<plan_steps, steps_by_id, remaining, completed, failed,
                   execution_order, ready, task_result, pc, exception, report>>
    /\ UNCHANGED <<builder_vars, task_vars, client, monitor, lifecycle>>

\* a started task finishes: the executor returns, times out or raises
StepFinish ==
    /\ pc = "gather"
    /\ \E sid \in running, outcome \in Outcomes :
         /\ running' = running \ {sid}
         /\ task_result' = Put(task_result, sid, RunStepResult(outcome))
    /\ UNCHANGED <<plan_steps, steps_by_id, remaining, completed, failed,
                   execution_order, ready, started, calls, waves, pc, exception,
                   report>>
    /\ UNCHANGED <<builder_vars, task_vars, client, monitor, lifecycle>>

\* gather returns; the results loop runs; back to the while test
CollectResults ==
    /\ pc = "gather" /\ GatherDone
    /\ LET a == Collect(Results, 1, [remaining |-> remaining,
                                     execution_order |-> execution_order,
                                     completed |-> completed,
                                     failed |-> failed,
                                     steps_by_id |-> steps_by_id])
       IN /\ remaining' = a.remaining
          /\ execution_order' = a.execution_order
          /\ completed' = a.completed
          /\ failed' = a.failed
          /\ steps_by_id' = a.steps_by_id
    /\ pc' = "loop"
    /\ UNCHANGED <<plan_steps, ready, started, running, task_result, calls, waves,
                   exception, report>>
    /\ UNCHANGED <<builder_vars, task_vars, client, monitor, lifecycle>>

\* await self.push_event(...) returns; return {...}
Return ==
    /\ pc = "emit"
    /\ report' = <<Report>>
    /\ pc' = "returned"
    /\ UNCHANGED <<plan_steps, steps_by_id, remaining, completed, failed,
                   execution_order, ready, started, running, task_result, calls,
                   waves, exception>>
    /\ UNCHANGED <<builder_vars, task_vars, client, monitor, lifecycle>>

\* await self.push_event(...) raises (stub.PushEvent fails): nothing catches it
PushEventRaises ==
    /\ pc = "emit"
    /\ pc' = "raised"
    /\ exception' = "push_event failed"
    /\ UNCHANGED <<plan_steps, steps_by_id, remaining, completed, failed,
                   execution_order, ready, started, running, task_result, calls,
                   waves, report>>
    /\ UNCHANGED <<builder_vars, task_vars, client, monitor, lifecycle>>

Next ==
    \/ LoopExit
    \/ ScanRaises
    \/ ScanDeadlock
    \/ ScanGather
    \/ StepStart
    \/ StepFinish
    \/ CollectResults
    \/ Return
    \/ PushEventRaises

Spec == Init /\ [][Next]_vars

SpecWide == InitWide /\ [][Next]_vars

\* Every executor call sits inside asyncio.wait_for(..., SUBTASK_TIMEOUT_S),
\* so it returns, raises or times out, and the event loop runs every task
\* that can run: a step of the runner that can be taken is taken.
SpecLive == Init /\ [][Next]_vars /\ WF_vars(Next)

\* ============================================================ _create_plan
\* A step id is a string; it is kept as the sequence of its "_"-separated
\* parts, so that f"{step_id}_{suffix}" is Append(step_id, suffix) and
\* f"step_{n}" is <<"step", Str(n)>>.
MaxRaw == 2            \* longest step list in the text think() returns

MAX_PLAN_STEPS == 20

\* uuid.uuid4().hex[:4]: two of the 65536 values
Suffixes == {"0", "1"}

\* the ids the text may give to a step; NoId: the entry has no "id" key
NoId == <<>>
RawIds == {<<"step", "2">>, NoId}
RawDeps == {{}, {<<"step", "2">>}}

Str(n) == <<"1", "2", "3", "4", "5">>[n]

\* the elements a JSON array may hold: an object with the keys the loop
\* reads, or a value that is no object (a number, a string)
RawSteps ==
    [is_dict : {TRUE}, id : RawIds, depends_on : RawDeps, can_fail : BOOLEAN]
      \cup {[is_dict |-> FALSE, id |-> NoId, depends_on |-> {}, can_fail |-> FALSE]}

RECURSIVE SeqsUpTo(_, _)
SeqsUpTo(S, n) ==
    IF n = 0 THEN {<<>>}
    ELSE LET P == SeqsUpTo(S, n - 1)
         IN P \cup {Append(p, e) : p \in {q \in P : Len(q) = n - 1}, e \in S}

\* What think() may return, by what json.loads makes of it: a list (also one
\* found between the first "[" and the last "]", or inside a ``` fence), a
\* JSON object, a JSON number or null, or no JSON at all.
PlanTexts(maxraw) ==
    {[kind |-> "array", steps |-> r] : r \in SeqsUpTo(RawSteps, maxraw)}
      \cup {[kind |-> k, steps |-> <<>>] : k \in {"object", "scalar", "garbage"}}

\* the single step both except-branches fall back to
FallbackPlan ==
    <<[is_dict |-> TRUE, id |-> <<"step", "1">>, depends_on |-> {}, can_fail |-> FALSE]>>

\* plan_steps = json.loads(plan_text), with its JSONDecodeError fallbacks;
\* sliceable: whether plan_steps[:MAX_PLAN_STEPS] works on the value
ParsePlan(text) ==
    CASE text.kind = "array"   -> [sliceable |-> TRUE,  plan_steps |-> text.steps]
      [] text.kind = "garbage" -> [sliceable |-> TRUE,  plan_steps |-> FallbackPlan]
      [] OTHER                 -> [sliceable |-> FALSE, plan_steps |-> <<>>]

\* plan_steps[:MAX_PLAN_STEPS]
Truncate(steps) ==
    SubSeq(steps, 1, IF Len(steps) < MAX_PLAN_STEPS THEN Len(steps) ELSE MAX_PLAN_STEPS)

\* step_id in seen_ids
Seen(step_id, seen_ids) == step_id \in seen_ids

\* d in seen_ids or d == step_id   (seen_ids already holds step_id)
KeepDep(d, step_id, seen_ids) == d \in seen_ids \/ d = step_id

\* for step in plan_steps[:MAX_PLAN_STEPS]: ...; sfx[i] is what uuid4 yields
\* if entry i needs a suffix
RECURSIVE ValidateFrom(_, _, _, _)
ValidateFrom(steps, i, sfx, acc) ==
    IF i > Len(steps) THEN acc
    ELSE IF ~steps[i].is_dict THEN [acc EXCEPT !.raised = TRUE]
    ELSE LET step == steps[i]
             given == IF step.id = NoId
                      THEN <<"step", Str(Len(acc.validated_steps) + 1)>>
                      ELSE step.id
             step_id == IF Seen(given, acc.seen_ids) THEN Append(given, sfx[i]) ELSE given
             seen == acc.seen_ids \cup {step_id}
         IN ValidateFrom(steps, i + 1, sfx,
              [acc EXCEPT
                 !.seen_ids = seen,
                 !.validated_steps =
                     Append(@, [id |-> step_id,
                                depends_on |-> {d \in step.depends_on :
                                                  KeepDep(d, step_id, seen)},
                                can_fail |-> step.can_fail])])

Validate(steps, sfx) ==
    ValidateFrom(Truncate(steps), 1, sfx,
                 [validated_steps |-> <<>>, seen_ids |-> {}, raised |-> FALSE])

\* the dict _create_plan returns
PlanResult == [steps |-> validated_steps, step_count |-> Len(validated_steps)]

\* `if steps is None` written for `if not steps`: an empty list passes
HasStepsNotNone(steps) == Len(steps) >= 0

\* if not steps: ... (the negation)

HasSteps(steps) == steps # <<>>

\* The descriptions of the tasks, each as the set of the keywords it
\* contains: "plan how to install nginx", "decompose goal into steps",
\* "execute plan for deploy", "delegate work to system agent", "install nginx
\* and configure it"; NotAString: the value under "description" is no str.
NotAString == {"<no str>"}
Descriptions == {{"plan"}, {"decompose"}, {"execute", "plan"}, {"delegate"}, {},
                 NotAString}

\* task["input_json"]: a dict (handle_task reads a missing key as {}), JSON
\* text or bytes ("text"), text json.loads rejects with JSONDecodeError or
\* bytes that do not decode ("malformed"), and JSON nested deeper than the
\* recursion limit, on which json.loads raises RecursionError ("too_deep").
InputJsons == {"dict", "text", "malformed", "too_deep"}

\* TaskAgent.handle_task: the first branch whose keywords the description has
Route(d) ==
    IF "plan" \in d \/ "decompose" \in d THEN "_create_plan"
    ELSE IF "execute" \in d /\ "plan" \in d THEN "_execute_plan"
    ELSE IF "delegate" \in d THEN "_delegate_subtask"
    ELSE "_plan_and_execute"

\* no _execute_plan and no _create_plan under way
RunnerIdle ==
    /\ plan_steps = <<>>
    /\ steps_by_id = <<>>
    /\ remaining = {}
    /\ completed = <<>>
    /\ failed = <<>>
    /\ execution_order = <<>>
    /\ ready = <<>>
    /\ started = 0
    /\ running = {}
    /\ task_result = <<>>
    /\ calls = <<>>
    /\ waves = <<>>
    /\ pc = "idle"
    /\ exception = "None"
    /\ report = <<>>
    /\ plan_text = <<>>
    /\ validated_steps = <<>>
    /\ plan_result = <<>>
    /\ build_pc = "idle"
    /\ build_exception = "None"

\* execute_task(task) has been called on a TaskAgent and has set
\* _current_task_id; nothing built, nothing run
InitAgent ==
    /\ RunnerIdle
    /\ description \in Descriptions
    /\ input_json \in InputJsons
    /\ handler = "None"
    /\ handler_result = <<>>
    /\ decisions = 0
    /\ exec_pc = "deserialise"
    /\ current_task_id = "task"
    /\ tasks_completed = 0
    /\ tasks_failed = 0
    /\ exec_report = <<>>
    /\ client = NoCall
    /\ monitor = NoMonitor
    /\ lifecycle = NoLifecycle

runner_vars == <<plan_steps, steps_by_id, remaining, completed, failed,
                 execution_order, ready, started, running, task_result, calls,
                 waves, pc, exception, report>>

\* past_context = await self.semantic_search(...)
SemanticSearch ==
    /\ build_pc = "search"
    /\ build_pc' = "think"
    /\ UNCHANGED <<plan_text, validated_steps, plan_result, build_exception>>
    /\ UNCHANGED <<runner_vars, task_vars, client, monitor, lifecycle>>

\* plan_text = await self.think(...)
Think ==
    /\ build_pc = "think"
    /\ plan_text' \in PlanTexts(MaxRaw)
    /\ build_pc' = "parse"
    /\ UNCHANGED <<validated_steps, plan_result, build_exception>>
    /\ UNCHANGED <<runner_vars, task_vars, client, monitor, lifecycle>>

\* the same with one more step in the text: the shortest texts in which a
\* suffixed id meets a third step
ThinkWide ==
    /\ build_pc = "think"
    /\ plan_text' \in PlanTexts(MaxRaw + 1)
    /\ build_pc' = "parse"
    /\ UNCHANGED <<validated_steps, plan_result, build_exception>>
    /\ UNCHANGED <<runner_vars, task_vars, client, monitor, lifecycle>>

\* one of the three awaited memory/runtime RPCs fails: the stub call raises
\* grpc.aio.AioRpcError and _create_plan has no handler
RpcRaises ==
    /\ build_pc \in {"search", "think", "store"}
    /\ build_pc' = "raised"
    /\ build_exception' = "AioRpcError"
    /\ UNCHANGED <<plan_text, validated_steps, plan_result>>
    /\ UNCHANGED <<runner_vars, task_vars, client, monitor, lifecycle>>

\* json.loads gave a value that cannot be sliced, or the list holds an
\* element without .get: TypeError / AttributeError leaves _create_plan
ValidateRaises ==
    /\ build_pc = "parse"
    /\ LET p == ParsePlan(plan_text) IN
         \/ ~p.sliceable /\ build_exception' = "TypeError"
         \/ /\ p.sliceable
            /\ \E sfx \in [1..Len(p.plan_steps) -> Suffixes] :
                 Validate(p.plan_steps, sfx).raised
            /\ build_exception' = "AttributeError"
    /\ build_pc' = "raised"
    /\ UNCHANGED <<plan_text, validated_steps, plan_result>>
    /\ UNCHANGED <<runner_vars, task_vars, client, monitor, lifecycle>>

\* parsing and the validation loop run through (no await in between)
ValidatePlan ==
    /\ build_pc = "parse"
    /\ LET p == ParsePlan(plan_text) IN
         /\ p.sliceable
         /\ \E sfx \in [1..Len(p.plan_steps) -> Suffixes] :
              LET v == Validate(p.plan_steps, sfx) IN
                /\ ~v.raised
                /\ validated_steps' = v.validated_steps
    /\ build_pc' = "store"
    /\ UNCHANGED <<plan_text, plan_result, build_exception>>
    /\ UNCHANGED <<runner_vars, task_vars, client, monitor, lifecycle>>

\* await self.store_memory("last_plan", ...); return {...}
StoreAndReturn ==
    /\ build_pc = "store"
    /\ plan_result' = <<PlanResult>>
    /\ build_pc' = "built"
    /\ UNCHANGED <<plan_text, validated_steps, build_exception>>
    /\ UNCHANGED <<runner_vars, task_vars, client, monitor, lifecycle>>

\* _plan_and_execute: if not steps: return {"success": False, ...}
NoSteps ==
    /\ build_pc = "built" /\ handler = "_plan_and_execute"
    /\ ~HasSteps(plan_result[1].steps)
    /\ build_pc' = "no_steps"
    /\ UNCHANGED <<plan_text, validated_steps, plan_result, build_exception>>
    /\ UNCHANGED <<runner_vars, task_vars, client, monitor, lifecycle>>

\* _plan_and_execute: execution_result = await self._execute_plan(steps, task)
ExecuteBuiltPlan ==
    /\ build_pc = "built" /\ handler = "_plan_and_execute"
    /\ HasSteps(plan_result[1].steps)
    /\ build_pc' = "executing"
    /\ plan_steps' = plan_result[1].steps
    /\ steps_by_id' = StepsById(plan_result[1].steps)
    /\ remaining' = DOMAIN StepsById(plan_result[1].steps)
    /\ calls' = [s \in DOMAIN StepsById(plan_result[1].steps) |-> 0]
    /\ pc' = "loop"
    /\ UNCHANGED <<completed, failed, execution_order, ready, started, running,
                   task_result, waves, exception, report>>
    /\ UNCHANGED <<plan_text, validated_steps, plan_result, build_exception>>
    /\ UNCHANGED <<task_vars, client, monitor, lifecycle>>

\* execute_task: input_json is left alone (no str, no bytes), parsed, or
\* replaced by {} when json.loads or decode() raised one of the two caught
\* errors
DeserialiseInput ==
    /\ exec_pc = "deserialise"
    /\ description # NotAString /\ input_json # "too_deep"
    /\ input_json' = "dict"
    /\ exec_pc' = "handling"
    /\ UNCHANGED <<description, handler, handler_result, decisions,
                   current_task_id, tasks_completed, tasks_failed, exec_report>>
    /\ UNCHANGED <<runner_vars, builder_vars, client, monitor, lifecycle>>

\* execute_task: task.get("description", "")[:80] on a value that is no str
\* raises TypeError, json.loads on too deeply nested text raises
\* RecursionError; both before handle_task is called
DeserialiseRaises ==
    /\ exec_pc = "deserialise"
    /\ description = NotAString \/ input_json = "too_deep"
    /\ exec_pc' = "except"
    /\ UNCHANGED <<description, input_json, handler, handler_result, decisions,
                   current_task_id, tasks_completed, tasks_failed, exec_report>>
    /\ UNCHANGED <<runner_vars, builder_vars, client, monitor, lifecycle>>

\* result = await self.handle_task(task): TaskAgent.handle_task picks the
\* handler and awaits it; _execute_plan gets input_json["plan"] (or [])
HandleTask ==
    /\ exec_pc = "handling" /\ handler = "None"
    /\ handler' = Route(description)
    /\ build_pc' = IF Route(description) \in {"_create_plan", "_plan_and_execute"}
                   THEN "search" ELSE build_pc
    /\ pc' = IF Route(description) = "_execute_plan" THEN "loop" ELSE pc
    /\ plan_steps' \in IF Route(description) = "_execute_plan"
                        THEN PlansOf(MaxSteps, MaxDeps)
                        ELSE {plan_steps}
    /\ steps_by_id' = StepsById(plan_steps')
    /\ remaining' = DOMAIN StepsById(plan_steps')
    /\ calls' = [s \in DOMAIN StepsById(plan_steps') |-> 0]
    /\ UNCHANGED <<completed, failed, execution_order, ready, started, running,
                   task_result, waves, exception, report>>
    /\ UNCHANGED <<plan_text, validated_steps, plan_result, build_exception>>
    /\ UNCHANGED <<description, input_json, handler_result, decisions, exec_pc,
                   current_task_id, tasks_completed, tasks_failed, exec_report>>
    /\ UNCHANGED <<client, monitor, lifecycle>>

\* _plan_and_execute: await self.store_decision(...) returns; the dict with
\* the plan and the execution report is built
StoreDecision ==
    /\ handler = "_plan_and_execute" /\ build_pc = "executing" /\ pc = "returned"
    /\ decisions' = decisions + 1
    /\ build_pc' = "done"
    /\ UNCHANGED <<description, input_json, handler, handler_result, exec_pc,
                   current_task_id, tasks_completed, tasks_failed, exec_report>>
    /\ UNCHANGED <<plan_text, validated_steps, plan_result, build_exception>>
    /\ UNCHANGED <<runner_vars, client, monitor, lifecycle>>

\* _plan_and_execute: stub.StoreDecision fails and store_decision raises
StoreDecisionRaises ==
    /\ handler = "_plan_and_execute" /\ build_pc = "executing" /\ pc = "returned"
    /\ decisions' = decisions + 1
    /\ build_pc' = "raised"
    /\ build_exception' = "AioRpcError"
    /\ UNCHANGED <<description, input_json, handler, handler_result, exec_pc,
                   current_task_id, tasks_completed, tasks_failed, exec_report>>
    /\ UNCHANGED <<plan_text, validated_steps, plan_result>>
    /\ UNCHANGED <<runner_vars, client, monitor, lifecycle>>

\* What the awaited handler hands back to handle_task, {} while it runs.
\* success is result.get("success", False), error is result.get("error", "").
Returned(success, error) ==
    [outcome |-> "returned", success |-> success, error |-> error]
Raised == [outcome |-> "raised", success |-> FALSE, error |-> ""]

HandlerOutcomes ==
    IF build_pc = "raised" \/ pc = "raised" THEN {Raised}
    ELSE CASE handler = "_create_plan" ->
                IF build_pc = "built" THEN {Returned(FALSE, "")} ELSE {}
           [] handler = "_execute_plan" ->
                IF pc = "returned" THEN {Returned(report[1].success, "")} ELSE {}
           [] handler \in {"_delegate_subtask", "handle_task"} ->
                {Returned(TRUE, ""), Returned(FALSE, ""),
                 Returned(FALSE, "Subtask timed out"), Raised}
           [] handler = "_plan_and_execute" ->
                IF build_pc = "no_steps"
                THEN {Returned(FALSE, "Failed to create execution plan")}
                ELSE IF build_pc = "done"
                THEN {Returned(report[1].success, "")}
                ELSE {}
           [] OTHER -> {}

\* the awaited handler returns or raises, and so does handle_task
HandleTaskEnds ==
    /\ exec_pc = "handling" /\ handler # "None"
    /\ \E r \in HandlerOutcomes :
         /\ handler_result' = <<r>>
         /\ exec_pc' = IF r.outcome = "raised" THEN "except" ELSE "handled"
    /\ UNCHANGED <<description, input_json, handler, decisions,
                   current_task_id, tasks_completed, tasks_failed, exec_report>>
    /\ UNCHANGED <<runner_vars, builder_vars, client, monitor, lifecycle>>

\* the result's own flag passed on: "success": result.get("success", False)
ExecReportOfResult(success) ==
    [task_id |-> current_task_id,
     success |-> success /\ handler_result # <<>> /\ handler_result[1].success]

\* the dict execute_task returns
ExecReport(success) == [task_id |-> current_task_id, success |-> success]

\* handle_task returned: self._tasks_completed += 1; return {"success": True,
\* ...}; finally: self._current_task_id = None
ExecuteTaskReturns ==
    /\ exec_pc = "handled"
    /\ tasks_completed' = tasks_completed + 1
    /\ exec_report' = Append(exec_report, ExecReport(TRUE))
    /\ current_task_id' = "None"
    /\ exec_pc' = "idle"
    /\ UNCHANGED <<description, input_json, handler, handler_result, decisions,
                   tasks_failed>>
    /\ UNCHANGED <<runner_vars, builder_vars, client, monitor, lifecycle>>

\* the except branch without `self._tasks_failed += 1`
ExecuteTaskExceptUncounted ==
    /\ exec_pc = "except"
    /\ exec_report' = Append(exec_report, ExecReport(FALSE))
    /\ current_task_id' = "None"
    /\ exec_pc' = "idle"
    /\ UNCHANGED <<description, input_json, handler, handler_result, decisions,
                   tasks_completed, tasks_failed>>
    /\ UNCHANGED <<runner_vars, builder_vars, client, monitor, lifecycle>>

\* except Exception: self._tasks_failed += 1; return {"success": False, ...};
\* finally: self._current_task_id = None
ExecuteTaskExcept ==
    /\ exec_pc = "except"
    /\ tasks_failed' = tasks_failed + 1
    /\ exec_report' = Append(exec_report, ExecReport(FALSE))
    /\ current_task_id' = "None"
    /\ exec_pc' = "idle"
    /\ UNCHANGED <<description, input_json, handler, handler_result, decisions,
                   tasks_completed>>
    /\ UNCHANGED <<runner_vars, builder_vars, client, monitor, lifecycle>>

NextAgent ==
    \/ DeserialiseInput
    \/ DeserialiseRaises
    \/ HandleTask
    \/ StoreDecision
    \/ StoreDecisionRaises
    \/ HandleTaskEnds
    \/ ExecuteTaskReturns
    \/ ExecuteTaskExcept
    \/ SemanticSearch
    \/ Think
    \/ RpcRaises
    \/ ValidateRaises
    \/ ValidatePlan
    \/ StoreAndReturn
    \/ NoSteps
    \/ ExecuteBuiltPlan
    \/ LoopExit
    \/ ScanRaises
    \/ ScanDeadlock
    \/ ScanGather
    \/ StepStart
    \/ StepFinish
    \/ CollectResults
    \/ Return
    \/ PushEventRaises

\* execute_task on a TaskAgent: the task is dispatched, the plan built from
\* think()'s text is run
SpecAgent == InitAgent /\ [][NextAgent]_vars

NextAgentWide ==
    \/ DeserialiseInput
    \/ DeserialiseRaises
    \/ HandleTask
    \/ StoreDecision
    \/ StoreDecisionRaises
    \/ HandleTaskEnds
    \/ ExecuteTaskReturns
    \/ ExecuteTaskExcept
    \/ SemanticSearch
    \/ ThinkWide
    \/ RpcRaises
    \/ ValidateRaises
    \/ ValidatePlan
    \/ StoreAndReturn
    \/ NoSteps
    \/ ExecuteBuiltPlan
    \/ LoopExit
    \/ ScanRaises
    \/ ScanDeadlock
    \/ ScanGather
    \/ StepStart
    \/ StepFinish
    \/ CollectResults
    \/ Return
    \/ PushEventRaises

SpecAgentWide == InitAgent /\ [][NextAgentWide]_vars

\* ================================================= BaseAgent.execute_task
\* execute_task called again and again on an agent whose handle_task (an
\* abstract method of BaseAgent) may return any result or raise.
MaxTasks == 3          \* most execute_task calls in a row

\* a fresh agent: no task yet, both counters 0
InitExec ==
    /\ RunnerIdle
    /\ TaskIdle
    /\ client = NoCall
    /\ monitor = NoMonitor
    /\ lifecycle = NoLifecycle

\* task_id = task.get("id", ...); self._current_task_id = task_id
ExecuteTask ==
    /\ exec_pc = "idle" /\ Len(exec_report) < MaxTasks
    /\ current_task_id' = "task"
    /\ description' \in {{}, NotAString}
    /\ input_json' \in InputJsons
    /\ handler' = "None"
    /\ handler_result' = <<>>
    /\ exec_pc' = "deserialise"
    /\ UNCHANGED <<decisions, tasks_completed, tasks_failed, exec_report>>
    /\ UNCHANGED <<runner_vars, builder_vars, client, monitor, lifecycle>>

\* result = await self.handle_task(task), the subclass not looked into
HandleTaskAny ==
    /\ exec_pc = "handling" /\ handler = "None"
    /\ handler' = "handle_task"
    /\ UNCHANGED <<description, input_json, handler_result, decisions, exec_pc,
                   current_task_id, tasks_completed, tasks_failed, exec_report>>
    /\ UNCHANGED <<runner_vars, builder_vars, client, monitor, lifecycle>>

\* the task running execute_task is cancelled while handle_task is awaited:
\* CancelledError is no Exception, only the finally clause runs, and the
\* error leaves execute_task
HandleTaskCancelled ==
    /\ exec_pc = "handling" /\ handler # "None"
    /\ current_task_id' = "None"
    /\ exec_pc' = "cancelled"
    /\ UNCHANGED <<description, input_json, handler, handler_result, decisions,
                   tasks_completed, tasks_failed, exec_report>>
    /\ UNCHANGED <<runner_vars, builder_vars, client, monitor, lifecycle>>

NextExec ==
    \/ ExecuteTask
    \/ DeserialiseInput
    \/ DeserialiseRaises
    \/ HandleTaskAny
    \/ HandleTaskEnds
    \/ HandleTaskCancelled
    \/ ExecuteTaskReturns
    \/ ExecuteTaskExcept

SpecExec == InitExec /\ [][NextExec]_vars

\* ================================ OrchestratorClient._call, _grpc_call
\* The retry loop `for attempt in range(1, max_retries + 1)` around one unary
\* call; BaseAgent._grpc_call holds the same loop.
MaxRetries == 3        \* largest config.max_retries explored

\* the status the awaited call ends with; "OK": it returned the response
Statuses == {"OK", "UNAVAILABLE", "DEADLINE_EXCEEDED", "PERMISSION_DENIED"}

\* exc.code() in (grpc.StatusCode.UNAVAILABLE, grpc.StatusCode.DEADLINE_EXCEEDED)
Retryable(status) == status \in {"UNAVAILABLE", "DEADLINE_EXCEEDED"}

\* the loop has been entered with attempt = 1
InitCall ==
    /\ RunnerIdle
    /\ TaskIdle
    /\ client \in {[pc |-> "attempt", via |-> v, max_retries |-> m, attempt |-> 1,
                     statuses |-> <<>>, exception |-> "None"] :
                      v \in {"OrchestratorClient._call", "BaseAgent._grpc_call"},
                      m \in 0..MaxRetries}
    /\ monitor = NoMonitor
    /\ lifecycle = NoLifecycle

\* response = await call(...): returned, or AioRpcError caught; a retryable
\* status before the last attempt sleeps and continues, everything else is
\* re-raised by the bare `raise`
CallAttempt ==
    /\ client.pc = "attempt" /\ client.attempt <= client.max_retries
    /\ \E status \in Statuses :
         client' = [client EXCEPT
                      !.statuses = Append(@, status),
                      !.pc = IF status = "OK" THEN "returned"
                             ELSE IF Retryable(status)
                                     /\ client.attempt < client.max_retries
                             THEN "sleep" ELSE "raised",
                      !.exception = IF status = "OK"
                                       \/ (Retryable(status)
                                           /\ client.attempt < client.max_retries)
                                    THEN @ ELSE "AioRpcError"]
    /\ UNCHANGED <<runner_vars, builder_vars, task_vars, monitor, lifecycle>>

\* await asyncio.sleep(wait); continue
CallRetry ==
    /\ client.pc = "sleep"
    /\ client' = [client EXCEPT !.pc = "attempt", !.attempt = @ + 1]
    /\ UNCHANGED <<runner_vars, builder_vars, task_vars, monitor, lifecycle>>

\* the for loop ran out of attempts: raise RuntimeError("... failed after
\* <max_retries> retries")
CallExhausted ==
    /\ client.pc = "attempt" /\ client.attempt > client.max_retries
    /\ client' = [client EXCEPT !.pc = "raised", !.exception = "RuntimeError"]
    /\ UNCHANGED <<runner_vars, builder_vars, task_vars, monitor, lifecycle>>

NextCall ==
    \/ CallAttempt
    \/ CallRetry
    \/ CallExhausted

SpecCall == InitCall /\ [][NextCall]_vars

\* ========================================= MonitoringAgent._check_alerts
\* monitor.active_alerts is the key set of self._active_alerts; rules, i,
\* new_alerts and resolved_alerts are the locals of the call under way, the
\* rule list being drawn rule by rule as the loop reaches it;
\* `before` is _active_alerts as the call found it and `seen` what the call
\* has made of each rule so far ("none": get_metric gave None).
MaxRules == 2          \* longest rule list passed to one call

AlertNames == {"cpu", "mem", "disk"}
Operators == {">", "<", ">=", "<=", "==", "!="}

\* what get_metric returns: <<>> for None, else <<value>>
MetricValues == {<<>>, <<1>>, <<2>>, <<3>>}

\* the rules that may follow the rules `sofar` in a list of pairwise
\* distinct names
RulesAfter(sofar) ==
    {r \in [name : AlertNames, operator : Operators, threshold : {2}] :
       \A i \in 1..Len(sofar) : sofar[i].name # r.name}

\* the if/elif chain over the operator; an operator it does not know never
\* triggers
Triggered(operator, metric_value, threshold) ==
    \/ operator = ">"  /\ metric_value > threshold
    \/ operator = "<"  /\ metric_value < threshold
    \/ operator = ">=" /\ metric_value >= threshold
    \/ operator = "<=" /\ metric_value <= threshold
    \/ operator = "==" /\ metric_value = threshold

\* a triggered rule is reported whether or not its alert is active already
EvalRuleReportsAgain(m, rule, value) ==
    IF value = <<>>
    THEN [m EXCEPT !.i = @ + 1, !.seen = Put(@, rule.name, "none")]
    ELSE IF Triggered(rule.operator, value[1], rule.threshold)
    THEN [m EXCEPT !.i = @ + 1,
                   !.seen = Put(@, rule.name, "triggered"),
                   !.active_alerts = @ \cup {rule.name},
                   !.new_alerts = Append(@, rule.name)]
    ELSE [m EXCEPT !.i = @ + 1,
                   !.seen = Put(@, rule.name, "quiet"),
                   !.active_alerts = @ \ {rule.name},
                   !.resolved_alerts = IF rule.name \in m.active_alerts
                                       THEN Append(@, rule.name) ELSE @]

\* one pass of `for rule in alert_rules` after get_metric returned `value`
EvalRule(m, rule, value) ==
    IF value = <<>>
    THEN [m EXCEPT !.i = @ + 1, !.seen = Put(@, rule.name, "none")]
    ELSE IF Triggered(rule.operator, value[1], rule.threshold)
    THEN [m EXCEPT !.i = @ + 1,
                   !.seen = Put(@, rule.name, "triggered"),
                   !.active_alerts = @ \cup {rule.name},
                   !.new_alerts = IF rule.name \notin m.active_alerts
                                  THEN Append(@, rule.name) ELSE @]
    ELSE [m EXCEPT !.i = @ + 1,
                   !.seen = Put(@, rule.name, "quiet"),
                   !.active_alerts = @ \ {rule.name},
                   !.resolved_alerts = IF rule.name \in m.active_alerts
                                       THEN Append(@, rule.name) ELSE @]

\* a MonitoringAgent after __init__: no active alert
InitMonitor ==
    /\ RunnerIdle
    /\ TaskIdle
    /\ client = NoCall
    /\ monitor = NoMonitor
    /\ lifecycle = NoLifecycle

\* _check_alerts(params) is called (the call before it has ended)
CheckAlerts ==
    /\ monitor.pc \in {"idle", "returned", "raised"}
    /\ monitor' = [monitor EXCEPT
                     !.pc = "rules", !.rules = <<>>, !.i = 1,
                     !.new_alerts = <<>>, !.resolved_alerts = <<>>,
                     !.before = monitor.active_alerts, !.seen = <<>>]
    /\ UNCHANGED <<runner_vars, builder_vars, task_vars, client, lifecycle>>

\* metric_value = await self.get_metric(metric_name), and the rest of the
\* loop body
EvaluateRule ==
    /\ monitor.pc = "rules" /\ Len(monitor.rules) < MaxRules
    /\ \E rule \in RulesAfter(monitor.rules), value \in MetricValues :
         monitor' = EvalRule([monitor EXCEPT !.rules = Append(@, rule)], rule, value)
    /\ UNCHANGED <<runner_vars, builder_vars, task_vars, client, lifecycle>>

\* stub.GetMetric fails: get_metric has no handler and neither has the loop
GetMetricRaises ==
    /\ monitor.pc = "rules" /\ Len(monitor.rules) < MaxRules
    /\ \E rule \in RulesAfter(monitor.rules) :
         monitor' = [monitor EXCEPT !.pc = "raised", !.rules = Append(@, rule)]
    /\ UNCHANGED <<runner_vars, builder_vars, task_vars, client, lifecycle>>

\* the events are pushed (if there is anything to tell) and the dict returned
CheckAlertsReturns ==
    /\ monitor.pc = "rules" /\ monitor.i = Len(monitor.rules) + 1
    /\ monitor' = [monitor EXCEPT !.pc = "returned"]
    /\ UNCHANGED <<runner_vars, builder_vars, task_vars, client, lifecycle>>

\* one of the two push_event calls fails
AlertEventRaises ==
    /\ monitor.pc = "rules" /\ monitor.i = Len(monitor.rules) + 1
    /\ monitor.new_alerts # <<>> \/ monitor.resolved_alerts # <<>>
    /\ monitor' = [monitor EXCEPT !.pc = "raised"]
    /\ UNCHANGED <<runner_vars, builder_vars, task_vars, client, lifecycle>>

NextMonitor ==
    \/ CheckAlerts
    \/ EvaluateRule
    \/ GetMetricRaises
    \/ CheckAlertsReturns
    \/ AlertEventRaises

SpecMonitor == InitMonitor /\ [][NextMonitor]_vars

\* ================================================= BaseAgent.run / shutdown
\* lifecycle.main is where run() stands (the await it is suspended at),
\* heartbeat_task and poll_task are the two asyncio tasks: pc is the await the
\* task is suspended at ("created": scheduled, not yet run), must_cancel is
\* set by Task.cancel() and delivered as CancelledError at the task's next
\* step.  One action is one step of one coroutine, from an await to the next
\* await that suspends.  beats and polls count the heartbeats and polls
\* started, unregisters the calls of unregister_from_orchestrator.
MaxBeats == 2          \* heartbeats, and polls, started by timeouts

Ended == {"finished", "cancelled"}

\* Task.cancel(): nothing on a task that is done
CancelTask(t) == IF t.pc \in Ended THEN t ELSE [t EXCEPT !.must_cancel = TRUE]

\* finally: await self.unregister_from_orchestrator()
EnterFinally(l) == [l EXCEPT !.main = "unregister", !.unregisters = @ + 1]

\* the second task is cancelled but run() does not wait for it
AfterHeartbeatTaskNoAwait(l) ==
    EnterFinally([l EXCEPT !.poll_task = CancelTask(@)])

\* second pass of `for t in (heartbeat_task, poll_task)`: t.cancel(); await t
\* (awaiting a task that is done does not suspend)
AfterHeartbeatTask(l) ==
    LET l2 == [l EXCEPT !.poll_task = CancelTask(@)]
    IN  IF l2.poll_task.pc \in Ended THEN EnterFinally(l2)
        ELSE [l2 EXCEPT !.main = "await poll_task"]

\* run() after `await self._shutdown_event.wait()`: first pass of the loop
AfterShutdownWait(l) ==
    LET l2 == [l EXCEPT !.heartbeat_task = CancelTask(@)]
    IN  IF l2.heartbeat_task.pc \in Ended THEN AfterHeartbeatTask(l2)
        ELSE [l2 EXCEPT !.main = "await heartbeat_task"]

\* a BaseAgent after __init__
InitRun ==
    /\ RunnerIdle
    /\ TaskIdle
    /\ client = NoCall
    /\ monitor = NoMonitor
    /\ lifecycle = NoLifecycle

\* shutdown(): self._shutdown_event.set(), at any time
Shutdown ==
    /\ ~lifecycle.shutdown_event
    /\ lifecycle' = [lifecycle EXCEPT !.shutdown_event = TRUE]
    /\ UNCHANGED <<runner_vars, builder_vars, task_vars, client, monitor>>

\* run() up to `await self.register_with_orchestrator()`
RunStarts ==
    /\ lifecycle.main = "not_started"
    /\ lifecycle' = [lifecycle EXCEPT !.running = TRUE, !.main = "register"]
    /\ UNCHANGED <<runner_vars, builder_vars, task_vars, client, monitor>>

\* RegisterAgent returns (accepted or rejected) or fails; both tasks are
\* created; an Event that is set does not suspend the waiter
RegisterEnds ==
    /\ lifecycle.main = "register"
    /\ \E registered \in BOOLEAN :
         LET l2 == [lifecycle EXCEPT
                      !.registered = registered,
                      !.heartbeat_task = [pc |-> "created", must_cancel |-> FALSE],
                      !.poll_task = [pc |-> "created", must_cancel |-> FALSE]]
         IN  lifecycle' = IF l2.shutdown_event THEN AfterShutdownWait(l2)
                          ELSE [l2 EXCEPT !.main = "wait"]
    /\ UNCHANGED <<runner_vars, builder_vars, task_vars, client, monitor>>

\* the event wakes run()
RunWakes ==
    /\ lifecycle.main = "wait" /\ lifecycle.shutdown_event
    /\ lifecycle' = AfterShutdownWait(lifecycle)
    /\ UNCHANGED <<runner_vars, builder_vars, task_vars, client, monitor>>

\* `await t` on the heartbeat task ends (CancelledError is passed over)
HeartbeatTaskJoined ==
    /\ lifecycle.main = "await heartbeat_task"
    /\ lifecycle.heartbeat_task.pc \in Ended
    /\ lifecycle' = AfterHeartbeatTask(lifecycle)
    /\ UNCHANGED <<runner_vars, builder_vars, task_vars, client, monitor>>

\* `await t` on the poll task ends
PollTaskJoined ==
    /\ lifecycle.main = "await poll_task"
    /\ lifecycle.poll_task.pc \in Ended
    /\ lifecycle' = EnterFinally(lifecycle)
    /\ UNCHANGED <<runner_vars, builder_vars, task_vars, client, monitor>>

\* UnregisterAgent returns or fails (the failure is logged)
UnregisterEnds ==
    /\ lifecycle.main = "unregister"
    /\ lifecycle' = [lifecycle EXCEPT !.main = "close"]
    /\ UNCHANGED <<runner_vars, builder_vars, task_vars, client, monitor>>

\* _close_channels() is through; self._running = False; run() returns
ChannelsClosed ==
    /\ lifecycle.main = "close"
    /\ lifecycle' = [lifecycle EXCEPT !.closed = TRUE, !.running = FALSE,
                                      !.main = "returned"]
    /\ UNCHANGED <<runner_vars, builder_vars, task_vars, client, monitor>>

\* what Task.cancel() makes of a task at its next step: CancelledError ends
\* it; asyncio.wait_for may hand back the result of an event wait that is
\* done at that moment instead, and the loop test then ends the task
CancelOutcomes(t, event) ==
    {"cancelled"} \cup (IF t.pc = "wait" /\ event THEN {"finished"} ELSE {})

\* first step of heartbeat_loop: a task cancelled before it ran never runs
\* its body
HeartbeatLoopStarts ==
    /\ lifecycle.heartbeat_task.pc = "created"
    /\ lifecycle' =
         IF lifecycle.heartbeat_task.must_cancel
         THEN [lifecycle EXCEPT !.heartbeat_task.pc = "cancelled"]
         ELSE IF lifecycle.shutdown_event
         THEN [lifecycle EXCEPT !.heartbeat_task.pc = "finished"]
         ELSE [lifecycle EXCEPT !.heartbeat_task.pc = "rpc", !.beats = @ + 1]
    /\ UNCHANGED <<runner_vars, builder_vars, task_vars, client, monitor>>

\* stub.Heartbeat returns or fails (logged), then wait_for suspends
HeartbeatRpcEnds ==
    /\ lifecycle.heartbeat_task.pc = "rpc"
    /\ lifecycle' =
         IF lifecycle.heartbeat_task.must_cancel
         THEN [lifecycle EXCEPT !.heartbeat_task.pc = "cancelled"]
         ELSE [lifecycle EXCEPT !.heartbeat_task.pc = "wait"]
    /\ UNCHANGED <<runner_vars, builder_vars, task_vars, client, monitor>>

\* wait_for ends: the event is set and the loop test ends the loop, or the
\* interval has passed and the next heartbeat is sent
HeartbeatWaitEnds ==
    /\ lifecycle.heartbeat_task.pc = "wait"
    /\ IF lifecycle.heartbeat_task.must_cancel
       THEN \E to \in CancelOutcomes(lifecycle.heartbeat_task, lifecycle.shutdown_event) :
              lifecycle' = [lifecycle EXCEPT !.heartbeat_task.pc = to]
       ELSE IF lifecycle.shutdown_event
       THEN lifecycle' = [lifecycle EXCEPT !.heartbeat_task.pc = "finished"]
       ELSE /\ lifecycle.beats < MaxBeats
            /\ lifecycle' = [lifecycle EXCEPT !.heartbeat_task.pc = "rpc", !.beats = @ + 1]
    /\ UNCHANGED <<runner_vars, builder_vars, task_vars, client, monitor>>

\* first step of task_poll_loop
PollLoopStarts ==
    /\ lifecycle.poll_task.pc = "created"
    /\ lifecycle' =
         IF lifecycle.poll_task.must_cancel
         THEN [lifecycle EXCEPT !.poll_task.pc = "cancelled"]
         ELSE IF lifecycle.shutdown_event
         THEN [lifecycle EXCEPT !.poll_task.pc = "finished"]
         ELSE [lifecycle EXCEPT !.poll_task.pc = "rpc", !.polls = @ + 1]
    /\ UNCHANGED <<runner_vars, builder_vars, task_vars, client, monitor>>

\* GetAssignedTask returns no task or fails (logged by the loop): wait_for
\* suspends; or it returns a task and execute_task is awaited
PollRpcEnds ==
    /\ lifecycle.poll_task.pc = "rpc"
    /\ IF lifecycle.poll_task.must_cancel
       THEN lifecycle' = [lifecycle EXCEPT !.poll_task.pc = "cancelled"]
       ELSE \E to \in {"wait", "execute_task"} :
              lifecycle' = [lifecycle EXCEPT !.poll_task.pc = to]
    /\ UNCHANGED <<runner_vars, builder_vars, task_vars, client, monitor>>

\* execute_task returns its result dict and ReportTaskResult is sent
PollExecuteEnds ==
    /\ lifecycle.poll_task.pc = "execute_task"
    /\ lifecycle' =
         IF lifecycle.poll_task.must_cancel
         THEN [lifecycle EXCEPT !.poll_task.pc = "cancelled"]
         ELSE [lifecycle EXCEPT !.poll_task.pc = "report"]
    /\ UNCHANGED <<runner_vars, builder_vars, task_vars, client, monitor>>

\* ReportTaskResult returns or fails (logged by the loop)
PollReportEnds ==
    /\ lifecycle.poll_task.pc = "report"
    /\ lifecycle' =
         IF lifecycle.poll_task.must_cancel
         THEN [lifecycle EXCEPT !.poll_task.pc = "cancelled"]
         ELSE [lifecycle EXCEPT !.poll_task.pc = "wait"]
    /\ UNCHANGED <<runner_vars, builder_vars, task_vars, client, monitor>>

PollWaitEnds ==
    /\ lifecycle.poll_task.pc = "wait"
    /\ IF lifecycle.poll_task.must_cancel
       THEN \E to \in CancelOutcomes(lifecycle.poll_task, lifecycle.shutdown_event) :
              lifecycle' = [lifecycle EXCEPT !.poll_task.pc = to]
       ELSE IF lifecycle.shutdown_event
       THEN lifecycle' = [lifecycle EXCEPT !.poll_task.pc = "finished"]
       ELSE /\ lifecycle.polls < MaxBeats
            /\ lifecycle' = [lifecycle EXCEPT !.poll_task.pc = "rpc", !.polls = @ + 1]
    /\ UNCHANGED <<runner_vars, builder_vars, task_vars, client, monitor>>

\* the steps of run() itself, of the heartbeat task and of the poll task
RunStep ==
    \/ RegisterEnds
    \/ RunWakes
    \/ HeartbeatTaskJoined
    \/ PollTaskJoined
    \/ UnregisterEnds
    \/ ChannelsClosed

HeartbeatStep ==
    \/ HeartbeatLoopStarts
    \/ HeartbeatRpcEnds
    \/ HeartbeatWaitEnds

PollStep ==
    \/ PollLoopStarts
    \/ PollRpcEnds
    \/ PollExecuteEnds
    \/ PollReportEnds
    \/ PollWaitEnds

NextRun ==
    \/ Shutdown
    \/ RunStarts
    \/ RunStep
    \/ HeartbeatStep
    \/ PollStep

\* the event loop runs every task that is ready, and every RPC returns or
\* fails; nobody has to call run() or shutdown()
SpecRun ==
    /\ InitRun /\ [][NextRun]_vars
    /\ WF_vars(RunStep) /\ WF_vars(HeartbeatStep) /\ WF_vars(PollStep)

\* ================================================================== claims
InPlan == DOMAIN steps_by_id
Deps(s) == steps_by_id[s].depends_on
Terminal == pc \in {"returned", "raised"}
SkippedIds(f) == {f[i].id : i \in {j \in 1..Len(f) : f[j].skipped}}
SkipRecord(s, err) == [id |-> s, error |-> err, skipped |-> TRUE]
\* executed, failed, and the failure was tolerated
Tolerated(s) == steps_by_id[s].status = "failed" /\ steps_by_id[s].can_fail
\* executed, failed, and the failure was not tolerated
HardFailed(s) == steps_by_id[s].status = "failed" /\ ~steps_by_id[s].can_fail

\* C1: a step is handed to the executor only after every dependency that is a
\* step of the plan has left `remaining`; so when an executed step depends on
\* an executed step, the dependency stands earlier in execution_order.
C1_DependenciesFirst ==
    /\ \A s \in InPlan :
         calls[s] > 0 => \A d \in Deps(s) \cap InPlan : d \notin remaining
    /\ \A i, j \in 1..Len(execution_order) :
         execution_order[i] \in Deps(execution_order[j]) => i < j

\* a run that returned with a dependent executed after its dependency
C1_Witness ==
    /\ pc = "returned"
    /\ \E i, j \in 1..Len(execution_order) :
         i < j /\ execution_order[i] \in Deps(execution_order[j])

\* C2: a step with can_fail = false, all of whose dependencies are resolved
\* and one of whose dependencies is in the failure list, is never passed to
\* the executor and ends up in the reported failures as
\* {error: "Dependency failed", skipped: true}.
C2_CascadingSkip ==
    Terminal =>
      \A s \in InPlan :
        ( /\ ~steps_by_id[s].can_fail
          /\ Deps(s) \cap remaining = {}
          /\ \E d \in Deps(s) : HardFailed(d) /\ d \in FailedIds(failed) )
        => /\ calls[s] = 0
           /\ Len(report) = 1
           /\ SkipRecord(s, "Dependency failed") \in Range(report[1].failures)

\* C3: an executed can_fail step that fails is stored in `completed` with its
\* failure payload and is not in `failed`; the returned report counts it as
\* completed; and each dependent of it, all of whose dependencies are
\* completed, has been executed, not skipped, by the end of the run.
C3_ToleratedFailure ==
    /\ \A s \in InPlan :
         Tolerated(s) =>
           /\ s \in DOMAIN completed
           /\ completed[s] = steps_by_id[s].result
           /\ ~completed[s].success
           /\ s \notin FailedIds(failed)
    /\ pc = "returned" =>
         \A s \in InPlan :
           Tolerated(s) =>
             /\ s \in DOMAIN report[1].results
             /\ report[1].results[s] = steps_by_id[s].result
             /\ s \notin FailedIds(report[1].failures)
             /\ report[1].steps_completed = Cardinality(DOMAIN report[1].results)
    /\ Terminal =>
         \A s, t \in InPlan :
           (Tolerated(s) /\ s \in Deps(t) /\ Deps(t) \cap InPlan \subseteq DOMAIN completed)
           => calls[t] > 0 /\ t \notin SkippedIds(failed)

\* C4: when A depends on B and B depends on A, both are recorded with
\* "Deadlocked dependency", skipped, and the executor is called for neither.
C4_CycleDeadlocked ==
    Terminal =>
      \A a, b \in InPlan :
        (a # b /\ b \in Deps(a) /\ a \in Deps(b))
        => /\ SkipRecord(a, "Deadlocked dependency") \in Range(failed)
           /\ SkipRecord(b, "Deadlocked dependency") \in Range(failed)
           /\ calls[a] = 0 /\ calls[b] = 0

\* the dependency graph of the plan, restricted to ids that are steps
RECURSIVE ReachFrom(_, _)
ReachFrom(front, seen) ==
    LET nxt == (UNION {Deps(x) \cap InPlan : x \in front}) \ seen
    IN IF nxt = {} THEN seen ELSE ReachFrom(nxt, seen \cup nxt)
Reach(s) == ReachFrom({s}, {})
OnCycle(s) == s \in Reach(s)
NeverReady(s) == \E c \in Reach(s) \cup {s} : OnCycle(c)

\* C5: a step is recorded as "Deadlocked dependency" only if it lies on a
\* dependency cycle or depends, directly or through other steps, on a step
\* that does; in an acyclic plan no such record is ever made.
C5_DeadlockOnlyIfStuck ==
    /\ \A s \in InPlan :
         SkipRecord(s, "Deadlocked dependency") \in Range(failed) => NeverReady(s)
    /\ (\A s \in InPlan : ~OnCycle(s)) =>
         \A i \in 1..Len(failed) : failed[i].error # "Deadlocked dependency"

\* a returned run in which a step off every cycle was reported deadlocked
\* because it depends on a cycle, while another step was executed
C5_Witness ==
    /\ pc = "returned"
    /\ Len(execution_order) > 0
    /\ \E s \in InPlan :
         /\ SkipRecord(s, "Deadlocked dependency") \in Range(report[1].failures)
         /\ ~OnCycle(s)

\* C6: the returned report has success = true iff its failures list is
\* empty, iff steps_failed = 0; the failures list is the hard-failure list.
C6_SuccessIffNoFailures ==
    pc = "returned" =>
      /\ report[1].failures = failed
      /\ report[1].success <=> report[1].failures = <<>>
      /\ report[1].success <=> report[1].steps_failed = 0

\* a returned report with completed steps and a failure
C6_Witness ==
    /\ pc = "returned"
    /\ ~report[1].success
    /\ report[1].steps_completed > 0
    /\ report[1].steps_failed > 0

\* C7 as claimed: if every step that failed on execution, timed out or was
\* never attempted has can_fail = true, the report has success = true.
C7_CanFailNeverCounts ==
    pc = "returned" =>
      ( (\A s \in InPlan :
            (steps_by_id[s].status = "failed" \/ calls[s] = 0) => steps_by_id[s].can_fail)
        => report[1].success )

\* C7 amended: if every step that failed on execution or timed out has
\* can_fail = true and no step is recorded as deadlocked, the report has
\* success = true.
C7_ToleratedNeverCounts ==
    pc = "returned" =>
      ( ( /\ \A s \in InPlan : steps_by_id[s].status = "failed" => steps_by_id[s].can_fail
          /\ \A s \in InPlan : SkipRecord(s, "Deadlocked dependency") \notin Range(failed) )
        => report[1].success )

\* a successful report of a run in which a can_fail step failed and its
\* dependent ran
C7_Witness ==
    /\ pc = "returned"
    /\ report[1].success
    /\ \E s, t \in InPlan : Tolerated(s) /\ s \in Deps(t) /\ calls[t] = 1

\* C8: no exception leaves the scheduling loop, whatever the plan and
\* whatever the executor does (a failing event sink is the subject of C9).
C8_NeverRaises ==
    ~(pc = "raised" /\ exception # "push_event failed")

\* C9: when push_event fails, _execute_plan still returns the report.
C9_EventFireAndForget ==
    exception = "push_event failed" => (pc = "returned" /\ report = <<Report>>)

\* C10: executor calls are in flight only while the gather of their own wave
\* is awaited; when the loop head is reached again the whole ready list has
\* been started and every step of it, and of every earlier wave, is terminal
\* and collected.
C10_WavesNeverOverlap ==
    /\ pc # "gather" => running = {}
    /\ running \subseteq Range(ready)
    /\ Len(waves) > 0 => running \subseteq waves[Len(waves)]
    /\ \A w \in 1..Len(waves) :
         (w < Len(waves) \/ pc # "gather") =>
            \A s \in waves[w] : /\ s \notin remaining
                                /\ steps_by_id[s].status # "pending"
                                /\ calls[s] = 1
    /\ (pc # "gather" /\ Len(waves) > 0) => waves[Len(waves)] = Range(ready)

\* in the second wave one task is done while a sibling is still running
C10_Witness ==
    /\ pc = "gather"
    /\ Len(waves) = 2
    /\ running # {}
    /\ DOMAIN task_result # {}

\* C11: in a plan none of whose steps has a dependency, _execute_plan runs
\* one wave, its ready list holds every step, and the returned report has
\* steps_completed + steps_failed = steps_total.
NoDependencies == \A i \in 1..Len(plan_steps) : plan_steps[i].depends_on = {}

C11_NoDepsOneWave ==
    (pc # "idle" /\ plan_steps # <<>> /\ NoDependencies) =>
      /\ Len(waves) <= 1
      /\ pc = "gather" => Range(ready) = {plan_steps[i].id : i \in 1..Len(plan_steps)}
      /\ pc = "returned" =>
           /\ Len(waves) = 1
           /\ waves[1] = {plan_steps[i].id : i \in 1..Len(plan_steps)}
           /\ report[1].steps_completed + report[1].steps_failed
                = report[1].steps_total

\* C12: a timeout is treated like a reported failure.  AsFailure* turn the
\* data of a run into the data of the run in which every executor call that
\* timed out returned success = false instead.  The scan, the deadlock
\* branch, the results loop and the report give, on the data so changed, what
\* they give on the original data, changed the same way (they read of a
\* result only its success flag); and a task that finishes, by timeout or
\* otherwise, leaves the results and the progress of its siblings alone.
AsFailure(result) ==
    IF result = RunStepResult("timeout") THEN RunStepResult("fail") ELSE result
AsFailureList(f) ==
    [i \in 1..Len(f) |->
       IF ~f[i].skipped /\ f[i].error = RunStepResult("timeout").error
       THEN [f[i] EXCEPT !.error = RunStepResult("fail").error] ELSE f[i]]
AsFailureLocals(a) ==
    [a EXCEPT !.failed = AsFailureList(@),
              !.completed = [k \in DOMAIN @ |-> AsFailure(@[k])],
              !.steps_by_id = [k \in DOMAIN @ |-> [@[k] EXCEPT !.result = AsFailure(@)]]]
Locals ==
    [remaining |-> remaining, execution_order |-> execution_order,
     completed |-> completed, failed |-> failed, steps_by_id |-> steps_by_id]

C12_ScanSame ==
    (pc = "loop" /\ remaining # {}) =>
      \A order \in Orders(remaining) :
        /\ ScanFrom(order, 1, [ready |-> <<>>, failed |-> AsFailureList(failed),
                               remaining |-> remaining, raised |-> FALSE])
             = [Scan(order) EXCEPT !.failed = AsFailureList(@)]
        /\ Deadlocked(order, 1, AsFailureList(failed))
             = AsFailureList(Deadlocked(order, 1, failed))

C12_CollectSame ==
    (pc = "gather" /\ GatherDone) =>
      Collect([i \in 1..Len(Results) |-> <<Results[i][1], AsFailure(Results[i][2])>>],
              1, AsFailureLocals(Locals))
        = AsFailureLocals(Collect(Results, 1, Locals))

C12_ReportSame ==
    pc = "returned" =>
      /\ OverallSuccess(AsFailureList(failed)) = report[1].success
      /\ Len(AsFailureList(failed)) = report[1].steps_failed
      /\ FailedIds(AsFailureList(failed)) = FailedIds(report[1].failures)
      /\ SkippedIds(AsFailureList(failed)) = SkippedIds(report[1].failures)
      /\ AsFailureList(report[1].failures) = AsFailureList(failed)
      /\ \A s \in InPlan :
           (steps_by_id[s].result = RunStepResult("timeout")) =>
             (s \in DOMAIN report[1].results <=> steps_by_id[s].can_fail)

C12_SiblingsUntouched ==
    (pc = "gather" /\ pc' = "gather") =>
      /\ ready' = ready
      /\ \A t \in DOMAIN task_result :
           t \in DOMAIN task_result' /\ task_result'[t] = task_result[t]
      /\ Cardinality(running \ running') <= 1
      /\ \A t \in running \ running' : t \in DOMAIN task_result'

C12_TimeoutLikeFailure ==
    /\ [](C12_ScanSame /\ C12_CollectSame /\ C12_ReportSame)
    /\ [][C12_SiblingsUntouched]_vars

\* a report of a run in which a can_fail step timed out while a sibling of
\* its wave succeeded, and a later wave ran
C12_Witness ==
    /\ pc = "returned"
    /\ Len(waves) = 2
    /\ \E s, t \in waves[1] :
         /\ steps_by_id[s].result = RunStepResult("timeout")
         /\ steps_by_id[s].can_fail
         /\ s \in DOMAIN report[1].results
         /\ steps_by_id[t].status = "completed"

\* C13: the iteration order of `remaining` decides nothing but the order of
\* ids inside a wave.  The orders in which ids stand in `failed`, in `ready`
\* and in execution_order are all that earlier scans leave behind; whatever
\* they are, and whatever order the next scan takes, the scan raises or not
\* alike and yields the same ready set, the deadlock branch records the same
\* steps, and the results loop leaves the same remaining, completed and
\* failed steps: so the waves, the executed steps and the overall outcome are
\* a function of the plan and of the executor's responses.
Perms(f) == {[i \in 1..Len(f) |-> f[p[i]]] : p \in Orders(1..Len(f))}

ScanView(order, f) ==
    LET r == ScanFrom(order, 1, [ready |-> <<>>, failed |-> f,
                                 remaining |-> remaining, raised |-> FALSE])
    IN IF r.raised
       THEN [raised |-> TRUE, ready |-> {}, failed |-> {}]
       ELSE [raised |-> FALSE, ready |-> Range(r.ready),
             failed |-> IF r.ready = <<>> THEN Range(Deadlocked(order, 1, r.failed))
                        ELSE Range(r.failed)]

CollectView(order, f) ==
    LET a == Collect([i \in 1..Len(order) |-> <<order[i], task_result[order[i]]>>],
                     1, [Locals EXCEPT !.failed = f])
    IN [remaining |-> a.remaining, completed |-> a.completed,
        steps_by_id |-> a.steps_by_id, failed |-> Range(a.failed),
        executed |-> Range(a.execution_order),
        success |-> OverallSuccess(a.failed)]

C13_OrderDecidesNothing ==
    /\ (pc = "loop" /\ remaining # {}) =>
         \A o1, o2 \in Orders(remaining) : \A f \in Perms(failed) :
           ScanView(o1, failed) = ScanView(o2, f)
    /\ (pc = "gather" /\ GatherDone) =>
         \A o \in Orders(Range(ready)) : \A f \in Perms(failed) :
           CollectView(ready, failed) = CollectView(o, f)
    /\ \A w \in 1..Len(waves) :
         (w < Len(waves) \/ pc # "gather") =>
           waves[w] = {execution_order[i] : i \in
                         {j \in 1..Len(execution_order) :
                            /\ j > Cardinality(UNION {waves[v] : v \in 1..(w - 1)})
                            /\ j <= Cardinality(UNION {waves[v] : v \in 1..w})}}

\* a report of a run of two waves, the first of more than one step, made
\* after a step had failed: every scan and every results loop had a choice
C13_Witness ==
    /\ pc = "returned"
    /\ Len(waves) = 2
    /\ Cardinality(waves[1]) > 1
    /\ Len(failed) > 0
    /\ Len(execution_order) = Cardinality(InPlan)

\* C14: a depends_on entry that is the id of no step of the plan acts as
\* already satisfied.  After a scan every remaining step whose dependencies
\* that are steps have all left `remaining` is in the ready list, whatever
\* other ids it names; a step is skipped with "Dependency failed" only when
\* a dependency that is a step is in the failure list, and is recorded as
\* deadlocked only when a dependency that is a step is still in `remaining`;
\* a step that names no step at all runs in the first wave.
C14_UnknownDepsSatisfied ==
    /\ pc = "gather" =>
         \A s \in remaining :
           (Deps(s) \cap InPlan \cap remaining = {}) => s \in Range(ready)
    /\ \A s \in InPlan :
         /\ SkipRecord(s, "Dependency failed") \in Range(failed)
              => \E d \in Deps(s) \cap InPlan : d \in FailedIds(failed)
         /\ SkipRecord(s, "Deadlocked dependency") \in Range(failed)
              => Deps(s) \cap InPlan \cap remaining # {}
         /\ (Deps(s) \cap InPlan = {}) =>
              /\ s \notin SkippedIds(failed)
              /\ (Len(waves) > 1 \/ (Len(waves) = 1 /\ pc # "gather")) => s \in waves[1]

\* a report in which a step that names a step and an id of no step was
\* executed, after the step it names
C14_Witness ==
    /\ pc = "returned"
    /\ \E s \in InPlan :
         /\ Deps(s) \ InPlan # {}
         /\ Deps(s) \cap InPlan # {}
         /\ s \in DOMAIN report[1].results
         /\ report[1].results[s].success

\* C15: the executor is called at most once for a step, and only for steps
\* of a ready list, each of which is called before the results loop runs; no
\* id stands twice in a ready list or in execution_order; at the loop head
\* execution_order holds exactly the steps the executor was called for; and
\* whenever execution_order grows, it grows by the ids that leave `remaining`
\* in that step, each once.
NoRepeat(q) == \A i, j \in 1..Len(q) : q[i] = q[j] => i = j

C15_StateOf ==
    /\ \A s \in InPlan : calls[s] <= 1
    /\ \A s \in InPlan : calls[s] = 1 => (s \in running \/ s \in Range(ready))
                                         \/ s \in Range(execution_order)
    /\ running \subseteq Range(ready)
    /\ NoRepeat(ready)
    /\ NoRepeat(execution_order)
    /\ pc # "gather" =>
         /\ Range(execution_order) = {s \in InPlan : calls[s] = 1}
         /\ \A s \in Range(ready) : calls[s] = 1
    /\ \A s \in Range(execution_order) :
         s \notin remaining /\ steps_by_id[s].status # "pending"

C15_StepOf ==
    execution_order' # execution_order =>
      \E k \in 1..Len(execution_order') :
        /\ SubSeq(execution_order', 1, Len(execution_order')  - k) = execution_order
        /\ {execution_order'[i] : i \in (Len(execution_order') - k + 1)..Len(execution_order')}
             = remaining \ remaining'
        /\ k = Cardinality(remaining \ remaining')

C15_CalledOnceInOrder == []C15_StateOf /\ [][C15_StepOf]_vars

\* a report of a run of three one-step waves
C15_Witness ==
    /\ pc = "returned"
    /\ Len(waves) = 3
    /\ Len(report[1].execution_order) = 3
    /\ \A s \in InPlan : calls[s] = 1

\* C16: a step's status is "pending" until the executor has been called for
\* it, it is always one of pending, completed, failed, and it changes only
\* from pending, to completed or to failed: once changed it stays.
Status(s) == steps_by_id[s].status

C16_StatusStep ==
    \A s \in InPlan :
      /\ s \in DOMAIN steps_by_id'
      /\ steps_by_id'[s].status # Status(s) =>
           /\ Status(s) = "pending"
           /\ steps_by_id'[s].status \in {"completed", "failed"}

C16_StatusMonotonic ==
    /\ [](\A s \in InPlan : /\ Status(s) \in {"pending", "completed", "failed"}
                            /\ calls[s] = 0 => Status(s) = "pending")
    /\ [][C16_StatusStep]_vars

\* a report of a run that left one step completed, one failed and one pending
C16_Witness ==
    /\ pc = "returned"
    /\ \E s, t, u \in InPlan :
         Status(s) = "completed" /\ Status(t) = "failed" /\ Status(u) = "pending"

\* C17: the ids of the steps _create_plan has built are pairwise distinct.
C17_DistinctIds ==
    \A i, j \in 1..Len(validated_steps) :
      validated_steps[i].id = validated_steps[j].id => i = j

\* C18: in the plan _create_plan has built, every depends_on entry of a step
\* is the id of a step that stands earlier in the plan; so no step depends on
\* itself, on a later step or on an id of no step.
C18_DepsOnEarlierOnly ==
    \A i \in 1..Len(validated_steps) :
      \A d \in validated_steps[i].depends_on :
        \E j \in 1..(i - 1) : validated_steps[j].id = d

\* C19: _create_plan raises for no text think() returns (a failing RPC
\* aside), and for a text that holds no JSON, or an empty list, it returns
\* a plan of no steps.
C19_BuilderNeverRaises ==
    /\ build_pc = "raised" => build_exception = "AioRpcError"
    /\ (plan_result # <<>> /\ (plan_text.kind = "garbage" \/ plan_text.steps = <<>>))
         => plan_result[1].step_count = 0

EmptyPlanBuilt ==
    /\ handler = "_plan_and_execute"
    /\ plan_result # <<>>
    /\ plan_result[1].steps = <<>>

\* C21: when the built plan has no steps, _plan_and_execute returns
\* success = false with the error "Failed to create execution plan", and
\* neither _execute_plan nor the step executor nor store_decision is invoked.
C21_EmptyPlanNotRun ==
    EmptyPlanBuilt =>
      /\ pc = "idle" /\ waves = <<>> /\ calls = <<>>
      /\ decisions = 0
      /\ build_pc \in {"built", "no_steps"}
      /\ handler_result # <<>> =>
           handler_result[1] = Returned(FALSE, "Failed to create execution plan")

\* the task has ended on an empty plan
C21_Witness ==
    /\ EmptyPlanBuilt
    /\ handler_result # <<>>
    /\ exec_pc = "idle"

\* C22: a task whose description contains both "execute" and "plan" is
\* dispatched by handle_task to _execute_plan, on the plan of input_json, and
\* neither to _create_plan nor to _plan_and_execute.
C22_ExecutePlanDispatch ==
    ({"execute", "plan"} \subseteq description /\ handler # "None") =>
      /\ handler = "_execute_plan"
      /\ build_pc = "idle"
      /\ pc # "idle"

\* ------------------------------------------------------------ execute_task
\* execute_task has returned; the dict it returned last
TaskReported == exec_pc = "idle" /\ exec_report # <<>>
LastReport == exec_report[Len(exec_report)]
HandleTaskReturned == handler_result # <<>> /\ handler_result[1].outcome = "returned"
HandleTaskRaised == handler_result # <<>> /\ handler_result[1].outcome = "raised"

CountReports(flag) ==
    Cardinality({i \in 1..Len(exec_report) : exec_report[i].success = flag})

C23_StateOf ==
    /\ exec_pc \in {"idle", "cancelled"} => current_task_id = "None"
    /\ exec_pc = "idle" =>
         /\ tasks_completed + tasks_failed = Len(exec_report)
         /\ tasks_completed = CountReports(TRUE)
         /\ tasks_failed = CountReports(FALSE)

C23_StepOf ==
    (exec_pc # "idle" /\ exec_pc' = "idle") =>
      /\ Len(exec_report') = Len(exec_report) + 1
      /\ IF HandleTaskReturned
         THEN tasks_completed' = tasks_completed + 1 /\ tasks_failed' = tasks_failed
         ELSE tasks_completed' = tasks_completed /\ tasks_failed' = tasks_failed + 1

\* C23: whenever execute_task has returned, _current_task_id is None again;
\* each call that returns adds one to _tasks_completed if handle_task
\* returned and one to _tasks_failed if an exception was raised, and nothing
\* to the other counter; so after n calls in a row the two counters sum to n.
C23_OneCounterPerTask == []C23_StateOf /\ [][C23_StepOf]_vars

\* three calls have returned, some completed and some failed
C23_Witness ==
    /\ exec_pc = "idle" /\ Len(exec_report) = MaxTasks
    /\ tasks_completed > 0 /\ tasks_failed > 0
    /\ HandleTaskRaised

\* ------------------------------------------------- termination, bookkeeping
C26_WaveBound ==
    /\ Len(waves) <= Len(plan_steps)
    /\ pc # "gather" => Len(waves) + Cardinality(remaining) <= Len(plan_steps)

C26_Progress ==
    /\ (pc = "loop" /\ pc' # "loop") => pc' \in {"gather", "emit", "raised"}
    /\ (pc = "gather" /\ pc' # "gather") =>
         /\ pc' = "loop"
         /\ remaining' \subseteq remaining /\ remaining' # remaining
    /\ pc \in {"emit", "returned", "raised"} => pc' \in {"emit", "returned", "raised"}

\* C26: if every executor call returns, raises or times out, _execute_plan
\* comes to an end (it returns its report or an exception leaves it): each
\* iteration of the main loop either takes at least one step out of
\* `remaining` or leaves the loop for good, and a plan of N steps runs at
\* most N waves.
C26_Terminates ==
    /\ <>Terminal
    /\ []C26_WaveBound
    /\ [][C26_Progress]_vars

\* a chain: as many waves as steps, and the report returned
C26_Witness ==
    /\ pc = "returned"
    /\ Len(plan_steps) = MaxSteps
    /\ Len(waves) = Len(plan_steps)

DistinctIds(plan) == \A i, j \in 1..Len(plan) : plan[i].id = plan[j].id => i = j

\* C27: for a plan with pairwise distinct step ids no id is both in
\* `completed` and in `failed` and none is twice in `failed`, at any moment
\* of the run (also in one that skips a dependent); when _execute_plan
\* returns, every step id is in exactly one of `results` and `failures`, so
\* steps_completed + steps_failed = steps_total.
C27_EveryStepOnce ==
    DistinctIds(plan_steps) =>
      /\ DOMAIN completed \cap FailedIds(failed) = {}
      /\ \A i, j \in 1..Len(failed) : failed[i].id = failed[j].id => i = j
      /\ DOMAIN completed \cup FailedIds(failed) \subseteq InPlan
      /\ pc = "returned" =>
           /\ \A s \in InPlan :
                (s \in DOMAIN report[1].results) # (s \in FailedIds(report[1].failures))
           /\ report[1].steps_completed + report[1].steps_failed
                = report[1].steps_total

\* a returned run with a completed step, a failed one and deadlocked ones
C27_Witness ==
    /\ pc = "returned"
    /\ DOMAIN report[1].results # {}
    /\ \E i, j \in 1..Len(report[1].failures) :
         report[1].failures[i].skipped /\ ~report[1].failures[j].skipped
    /\ report[1].steps_total = MaxSteps

\* C28: after _execute_plan has returned, a step's status is "completed" iff
\* the executor was called for it and its result says success, "failed" iff
\* it was called and the result says failure (a tolerated failure is then
\* among `results` and counted in steps_completed), and "pending" iff the
\* executor was never called for it, in which case the step is listed in
\* `failures` as skipped.  A step recorded as skipped is pending throughout.
C28_StatusTellsOutcome ==
    /\ \A s \in SkippedIds(failed) : Status(s) = "pending" /\ calls[s] = 0
    /\ pc = "returned" =>
         \A s \in InPlan :
           /\ Status(s) = "completed" <=>
                (calls[s] > 0 /\ steps_by_id[s].result.success)
           /\ Status(s) = "failed" <=>
                (calls[s] > 0 /\ ~steps_by_id[s].result.success)
           /\ Status(s) = "pending" <=> calls[s] = 0
           /\ Tolerated(s) => s \in DOMAIN report[1].results
           /\ HardFailed(s) => s \in FailedIds(report[1].failures)
           /\ Status(s) = "pending" => s \in SkippedIds(report[1].failures)

\* a report with a tolerated failure among the results and a pending step
\* among the failures
C28_Witness ==
    /\ pc = "returned"
    /\ \E s, t \in InPlan :
         /\ Tolerated(s) /\ s \in DOMAIN report[1].results
         /\ Status(t) = "pending" /\ t \in FailedIds(report[1].failures)

\* ------------------------------------------------------------ retried calls
AllRetryable(sts) == \A i \in 1..Len(sts) : Retryable(sts[i])

\* C24: when every attempt fails with UNAVAILABLE or DEADLINE_EXCEEDED the
\* call makes exactly max_retries attempts and then raises RuntimeError
\* ("... failed after <max_retries> retries"); an attempt that fails with any
\* other status raises that error at once and is the last attempt.
C24_RetriesThenRuntimeError ==
    /\ client.pc = "raised" =>
         IF AllRetryable(client.statuses)
         THEN /\ Len(client.statuses) = client.max_retries
              /\ client.exception = "RuntimeError"
         ELSE /\ client.exception = "AioRpcError"
              /\ ~Retryable(client.statuses[Len(client.statuses)])
    /\ \A i \in 1..Len(client.statuses) :
         ~Retryable(client.statuses[i]) => i = Len(client.statuses)

\* ------------------------------------------------------------------ alerts
SeenAs(name) == IF name \in DOMAIN monitor.seen THEN monitor.seen[name] ELSE "unseen"

\* C25: in every call of _check_alerts over rules with distinct names, and
\* so after it, for each rule whose metric value was there the alert is
\* active iff the rule triggered in this call; an alert is in new_alerts iff
\* it triggered and was not active when the call began, in resolved_alerts
\* iff it did not trigger and was active when the call began; and an alert
\* whose rule got None, or has no rule in the call, is as the call found it.
C25_AlertsFollowRules ==
    monitor.pc # "idle" =>
      \A name \in AlertNames :
        /\ SeenAs(name) = "triggered" => name \in monitor.active_alerts
        /\ SeenAs(name) = "quiet" => name \notin monitor.active_alerts
        /\ SeenAs(name) \in {"none", "unseen"} =>
             (name \in monitor.active_alerts <=> name \in monitor.before)
        /\ name \in Range(monitor.new_alerts) <=>
             (SeenAs(name) = "triggered" /\ name \notin monitor.before)
        /\ name \in Range(monitor.resolved_alerts) <=>
             (SeenAs(name) = "quiet" /\ name \in monitor.before)
        /\ \A i, j \in 1..Len(monitor.new_alerts) :
             monitor.new_alerts[i] = monitor.new_alerts[j] => i = j

\* a returned call in which an active alert triggered again without being
\* reported, another was resolved
C25_Witness ==
    /\ monitor.pc = "returned"
    /\ \E a, b \in AlertNames :
         /\ a \in monitor.before /\ SeenAs(a) = "triggered"
         /\ a \notin Range(monitor.new_alerts)
         /\ b \in monitor.before /\ SeenAs(b) = "quiet"
         /\ b \in Range(monitor.resolved_alerts)

\* ---------------------------------------------------------------- shutdown
RunReturned == lifecycle.main = "returned"

C30_AtReturn ==
    /\ lifecycle.unregisters <= 1
    /\ RunReturned =>
         /\ lifecycle.heartbeat_task.pc \in Ended
         /\ lifecycle.poll_task.pc \in Ended
         /\ lifecycle.unregisters = 1
         /\ lifecycle.closed
         /\ ~lifecycle.running

C30_NothingStartsAfterReturn ==
    RunReturned =>
      /\ lifecycle'.beats = lifecycle.beats
      /\ lifecycle'.polls = lifecycle.polls
      /\ lifecycle'.unregisters = lifecycle.unregisters
      /\ RunReturned'

\* C30: once shutdown() has been called, before or during a run(), and every
\* RPC returns or fails, run() returns in the end; when it has returned both
\* loops have stopped, unregister_from_orchestrator was called exactly once,
\* the channels are closed and _running is False, whether or not the
\* registration succeeded; and no heartbeat or poll starts after that.
C30_ShutdownEndsRun ==
    /\ (lifecycle.shutdown_event /\ lifecycle.main # "not_started") ~> RunReturned
    /\ []C30_AtReturn
    /\ [][C30_NothingStartsAfterReturn]_vars

\* run() has returned after a shutdown during a run whose registration had
\* failed and which had sent heartbeats and polled
C30_Witness ==
    /\ RunReturned
    /\ ~lifecycle.registered
    /\ lifecycle.beats = MaxBeats /\ lifecycle.polls >= 1
    /\ lifecycle.heartbeat_task.pc = "cancelled"
    /\ lifecycle.poll_task.pc = "finished"

====
